---- MODULE Spec2Model ----
(***************************************************************************)
(* The proportional-asset pallet (pallets/proportional-asset/src/lib.rs)   *)
(* as a state machine: the two storage maps, the currency balances the     *)
(* pallet reads and moves, the deposited events, and one action per        *)
(* dispatchable call.                                                      *)
(***************************************************************************)
EXTENDS Integers, Sequences, FiniteSets, TLC

-----------------------------------------------------------------------------
(* Bounds of the model *)

\* number of accounts that sign calls
NumAccounts == 3
\* calls are explored until this many events have been deposited
MaxEvents == 3
\* the same bound in the long runs on one asset (SpecDeep)
MaxDeepEvents == 6
\* the same bound in the runs of the documented scenario (SpecScenario)
MaxScenarioEvents == 4
\* the same bound in the runs that lose and regain the main ownership (SpecReclaim)
MaxReclaimEvents == 7
\* the same bound in the runs with prices near the u64 maximum (SpecSaturating)
MaxSaturatingEvents == 3
\* u64 is modelled at this width (share counts stay far below 2^U64Bits)
U64Bits == 12

-----------------------------------------------------------------------------
(* Program constants and input domains *)

TOTAL_SUPPLY == 100

Accounts == 1..NumAccounts

\* the byte payloads handed to create_proportional_asset
Payloads == {"house", "boat"}

\* T::Hashing::hash: a deterministic, injective map from payloads to identifiers
hash(data) == IF data = "house" THEN "h1" ELSE "h2"

Identifiers == {hash(d) : d \in Payloads}

MaxU64 == 2^U64Bits - 1

\* input values offered to the calls
SharePrices == {10, 20}
ShareCounts == {2, 50, 51}
AmountsSent == {40, MaxU64 + 1}

\* Option<T>: None is the empty tuple, Some(x) the one-element tuple
None == << >>
Some(x) == << x >>
IsSome(o) == o # << >>
Unwrap(o) == o[1]

\* genesis balances of the mock runtime; accounts not listed hold nothing
get_initial_balances == [a \in Accounts |-> IF a \in {1, 2} THEN 50 ELSE 0]

-----------------------------------------------------------------------------
(* u64 arithmetic *)

saturating_sub(a, b) == IF a >= b THEN a - b ELSE 0
saturating_add(a, b) == IF a + b > MaxU64 THEN MaxU64 ELSE a + b
saturating_mul(a, b) == IF a * b > MaxU64 THEN MaxU64 ELSE a * b

\* input.try_into().ok() from the Balance type (wider than u64) to u64
balance_to_u64_option(input) == IF input <= MaxU64 THEN Some(input) ELSE None

-----------------------------------------------------------------------------
(* State *)

VARIABLES
    metadataOf,   \* ProportionalAssetToOwnerToMetadata: id -> account -> Option<MetaData>
    mainOwner,    \* ProportionalAssetToMainOwner: id -> Option<AccountId>
    balance,      \* T::Currency free balance of every account
    events,       \* the events deposited so far, oldest first
    last,         \* the last dispatched call: its arguments and its DispatchResult
    pre           \* the storage, balances and events as they were when that call began

vars == << metadataOf, mainOwner, balance, events, last, pre >>

MetaData(shares, offers, price) == [shares |-> shares, offers |-> offers, price |-> price]

Snapshot == [metadataOf |-> metadataOf, mainOwner |-> mainOwner,
             balance |-> balance, events |-> events]

\* a dispatched call: `data` is the payload of a create, `shares` the share count
\* of an offer, a transfer or a buy, `amount` the share price of a create or an
\* offer and the amount sent of a buy, `other` the recipient of a transfer or the
\* seller of a buy, `res` the DispatchResult ("Ok" or the error)
Call(op, who, data, id, shares, amount, other, res) ==
    [op |-> op, who |-> who, data |-> data, id |-> id, shares |-> shares,
     amount |-> amount, other |-> other, res |-> res]

Init ==
    /\ metadataOf = [id \in Identifiers |-> [a \in Accounts |-> None]]
    /\ mainOwner = [id \in Identifiers |-> None]
    /\ balance = get_initial_balances
    /\ events = << >>
    /\ last = Call("none", 0, "", "", 0, 0, 0, "Ok")
    /\ pre = [metadataOf |-> [id \in Identifiers |-> [a \in Accounts |-> None]],
              mainOwner |-> [id \in Identifiers |-> None],
              balance |-> get_initial_balances,
              events |-> << >>]

-----------------------------------------------------------------------------
(* Helpers of the pallet *)

\* is_owner_of, were any holder of a record of the asset taken for its owner
is_owner_of_any_share(who, id) == IsSome(metadataOf[id][who])

\* who is the main owner of id
is_owner_of(who, id) == IsSome(mainOwner[id]) /\ Unwrap(mainOwner[id]) = who

get_main_owner_by_asset(id) == mainOwner[id]

\* set_main_owner, were an entry that is already there left as it is
set_main_owner_keeps_first(who, id) ==
    IF IsSome(mainOwner[id]) THEN mainOwner ELSE [mainOwner EXCEPT ![id] = Some(who)]

set_main_owner(who, id) == [mainOwner EXCEPT ![id] = Some(who)]

\* currency_transfer, were the recipient credited and the sender not debited
currency_transfer_credits_only(from, to, amount) ==
    [a \in Accounts |-> IF a = to THEN balance[a] + amount ELSE balance[a]]

\* T::Currency::transfer(from, to, amount, AllowDeath) when it returns Ok
currency_transfer(from, to, amount) ==
    [a \in Accounts |->
        IF a = from /\ a = to THEN balance[a]
        ELSE IF a = from THEN balance[a] - amount
        ELSE IF a = to THEN balance[a] + amount
        ELSE balance[a]]

-----------------------------------------------------------------------------
(* create_proportional_asset *)

\* create_metadata, were the whole supply offered at once
create_metadata_all_offered(share_price) == MetaData(TOTAL_SUPPLY, TOTAL_SUPPLY, share_price)

\* the metadata written for the creator
create_metadata(share_price) == MetaData(TOTAL_SUPPLY, 0, share_price)

\* create_result, were the lookup of the caller's record left out
create_result_unchecked(who, id) == "Ok"

\* "Check if id exists": the lookup is keyed on (id, who)
create_result(who, id) ==
    IF IsSome(metadataOf[id][who]) THEN "AssetAlreadyExists" ELSE "Ok"

create_proportional_asset(who, data, share_price) ==
    LET id == hash(data)
        res == create_result(who, id)
    IN  /\ pre' = Snapshot
        /\ last' = Call("create", who, data, id, 0, share_price, who, res)
        /\ IF res = "Ok"
           THEN /\ metadataOf' = [metadataOf EXCEPT ![id][who] = Some(create_metadata(share_price))]
                /\ mainOwner' = set_main_owner(who, id)
                /\ events' = Append(events, << "ProportionalAssetInitialized", id, who >>)
                /\ UNCHANGED balance
           ELSE UNCHANGED << metadataOf, mainOwner, balance, events >>

-----------------------------------------------------------------------------
(* offer_shares *)

\* offer_metadata, were the offers incremented instead of overwritten
offer_metadata_incremented(metadata, shares_to_offer, share_price) ==
    MetaData(metadata.shares, saturating_add(metadata.offers, shares_to_offer), share_price)

\* the metadata with the new offers and the new price
offer_metadata(metadata, shares_to_offer, share_price) ==
    MetaData(metadata.shares, shares_to_offer, share_price)

\* offer_result, were an offer of all the caller's shares refused
offer_result_below_shares(who, id, shares_to_offer) ==
    IF ~is_owner_of(who, id) THEN "NotMainOwner"
    ELSE IF ~IsSome(metadataOf[id][who]) THEN "InvalidAccount"
    ELSE IF ~(shares_to_offer < Unwrap(metadataOf[id][who]).shares) THEN "InvalidOffers"
    ELSE "Ok"

\* the checks of offer_shares in program order
offer_result(who, id, shares_to_offer) ==
    IF ~is_owner_of(who, id) THEN "NotMainOwner"
    ELSE IF ~IsSome(metadataOf[id][who]) THEN "InvalidAccount"
    ELSE IF ~(shares_to_offer <= Unwrap(metadataOf[id][who]).shares) THEN "InvalidOffers"
    ELSE "Ok"

offer_shares(who, id, shares_to_offer, share_price) ==
    LET res == offer_result(who, id, shares_to_offer)
    IN  /\ pre' = Snapshot
        /\ last' = Call("offer", who, "", id, shares_to_offer, share_price, who, res)
        /\ IF res = "Ok"
           THEN /\ metadataOf' = [metadataOf EXCEPT ![id][who] =
                        Some(offer_metadata(Unwrap(metadataOf[id][who]), shares_to_offer, share_price))]
                /\ events' = Append(events, << "SharesOffered", id, share_price >>)
                /\ UNCHANGED << mainOwner, balance >>
           ELSE UNCHANGED << metadataOf, mainOwner, balance, events >>

-----------------------------------------------------------------------------
(* transfer_shares_to_account *)

\* transfer_to_metadata, were the recipient's record always built afresh
transfer_to_metadata_fresh(to_metadata, amount) ==
    IF IsSome(to_metadata)
    THEN MetaData(saturating_add(Unwrap(to_metadata).shares, amount), 0, 0)
    ELSE MetaData(amount, 0, 0)

\* the recipient's metadata: a fresh record, or its old one with more shares
transfer_to_metadata(to_metadata, amount) ==
    IF IsSome(to_metadata)
    THEN MetaData(saturating_add(Unwrap(to_metadata).shares, amount),
                  Unwrap(to_metadata).offers, Unwrap(to_metadata).price)
    ELSE MetaData(amount, 0, 0)

\* transfer_origin_metadata, were the sender's offers reduced with its shares
transfer_origin_metadata_withdraws_offers(origin_metadata, amount) ==
    MetaData(saturating_sub(origin_metadata.shares, amount),
             saturating_sub(origin_metadata.offers, amount),
             origin_metadata.price)

\* the sender's metadata, computed from the record read when the call began
transfer_origin_metadata(origin_metadata, amount) ==
    MetaData(saturating_sub(origin_metadata.shares, amount),
             origin_metadata.offers, origin_metadata.price)

\* transfer_result, were a transfer of all the caller's shares refused
transfer_result_below_shares(who, id, amount) ==
    IF ~IsSome(metadataOf[id][who]) THEN "InvalidAccount"
    ELSE IF ~(Unwrap(metadataOf[id][who]).shares > amount) THEN "IncorrectSharesSelection"
    ELSE "Ok"

\* the checks of transfer_shares_to_account in program order
transfer_result(who, id, amount) ==
    IF ~IsSome(metadataOf[id][who]) THEN "InvalidAccount"
    ELSE IF ~(Unwrap(metadataOf[id][who]).shares >= amount) THEN "IncorrectSharesSelection"
    ELSE "Ok"

\* transfer_writes, were the record of a sender left without shares removed
transfer_writes_removes_empty(who, id, amount, to) ==
    LET origin_metadata == Unwrap(metadataOf[id][who])
        afterTo == [metadataOf EXCEPT ![id][to] =
                        Some(transfer_to_metadata(metadataOf[id][to], amount))]
    IN  [afterTo EXCEPT ![id][who] =
            IF origin_metadata.shares = amount
            THEN None
            ELSE Some(transfer_origin_metadata(origin_metadata, amount))]

\* the two writes in program order: the recipient's record, then the sender's
transfer_writes(who, id, amount, to) ==
    LET origin_metadata == Unwrap(metadataOf[id][who])
        afterTo == [metadataOf EXCEPT ![id][to] =
                        Some(transfer_to_metadata(metadataOf[id][to], amount))]
    IN  [afterTo EXCEPT ![id][who] = Some(transfer_origin_metadata(origin_metadata, amount))]

transfer_shares_to_account(who, id, amount, to) ==
    LET res == transfer_result(who, id, amount)
    IN  /\ pre' = Snapshot
        /\ last' = Call("transfer", who, "", id, amount, 0, to, res)
        /\ IF res = "Ok"
           THEN /\ metadataOf' = transfer_writes(who, id, amount, to)
                /\ events' = Append(events, << "SharesTransferred", who, to, amount >>)
                /\ UNCHANGED << mainOwner, balance >>
           ELSE UNCHANGED << metadataOf, mainOwner, balance, events >>

-----------------------------------------------------------------------------
(* buy_shares *)

\* buy_from_metadata, were the seller's offers left as they are
buy_from_metadata_keeps_offers(from_metadata, shares_to_buy) ==
    MetaData(saturating_sub(from_metadata.shares, shares_to_buy),
             from_metadata.offers,
             from_metadata.price)

\* the seller's metadata after the sale
buy_from_metadata(from_metadata, shares_to_buy) ==
    MetaData(saturating_sub(from_metadata.shares, shares_to_buy),
             saturating_sub(from_metadata.offers, shares_to_buy),
             from_metadata.price)

\* the buyer's metadata: starts as {0, 0, 0} and only its shares are filled in
buy_origin_metadata(old_origin_metadata, shares_to_buy) ==
    IF IsSome(old_origin_metadata)
    THEN MetaData(saturating_add(Unwrap(old_origin_metadata).shares, shares_to_buy), 0, 0)
    ELSE MetaData(shares_to_buy, 0, 0)

\* buy_checks, were the caller's balance checked before the seller's offers
buy_checks_balance_first(who, id, shares_to_buy, amount, from) ==
    IF ~(who # from) THEN "IncorrectSeller"
    ELSE IF ~is_owner_of(from, id) THEN "IncorrectSeller"
    ELSE IF ~IsSome(metadataOf[id][from]) THEN "InvalidAccount"
    ELSE LET from_metadata == Unwrap(metadataOf[id][from])
             price == saturating_mul(from_metadata.price, shares_to_buy)
             parsed_amount_sent == balance_to_u64_option(amount)
         IN  IF ~(from_metadata.shares >= shares_to_buy) THEN "IncorrectAmount"
             ELSE IF ~IsSome(parsed_amount_sent) THEN "ConversionError"
             ELSE IF ~(Unwrap(parsed_amount_sent) >= price) THEN "IncorrectAmount"
             ELSE IF ~(balance[who] >= amount) THEN "InsufficientBalance"
             ELSE IF ~(shares_to_buy <= from_metadata.shares) THEN "IncorrectSharesSelection"
             ELSE IF ~(shares_to_buy <= from_metadata.offers) THEN "IncorrectSharesSelection"
             ELSE "Ok"

\* the checks of buy_shares that precede the currency transfer, in program order
buy_checks(who, id, shares_to_buy, amount, from) ==
    IF ~(who # from) THEN "IncorrectSeller"
    ELSE IF ~is_owner_of(from, id) THEN "IncorrectSeller"
    ELSE IF ~IsSome(metadataOf[id][from]) THEN "InvalidAccount"
    ELSE LET from_metadata == Unwrap(metadataOf[id][from])
             price == saturating_mul(from_metadata.price, shares_to_buy)
             parsed_amount_sent == balance_to_u64_option(amount)
         IN  IF ~(from_metadata.shares >= shares_to_buy) THEN "IncorrectAmount"
             ELSE IF ~IsSome(parsed_amount_sent) THEN "ConversionError"
             ELSE IF ~(Unwrap(parsed_amount_sent) >= price) THEN "IncorrectAmount"
             ELSE IF ~(shares_to_buy <= from_metadata.shares) THEN "IncorrectSharesSelection"
             ELSE IF ~(shares_to_buy <= from_metadata.offers) THEN "IncorrectSharesSelection"
             ELSE IF ~(balance[who] >= amount) THEN "InsufficientBalance"
             ELSE "Ok"

\* T::Currency::transfer(..).map_err(..)?: gateway_ok is the outcome of the
\* transfer, which the pallet does not control
buy_result(checks, gateway_ok) ==
    IF checks # "Ok" THEN checks
    ELSE IF ~gateway_ok THEN "Other"
    ELSE "Ok"

\* the two writes in program order: the buyer's record, then the seller's
buy_writes(who, id, shares_to_buy, from) ==
    LET from_metadata == Unwrap(metadataOf[id][from])
        afterWho == [metadataOf EXCEPT ![id][who] =
                        Some(buy_origin_metadata(metadataOf[id][who], shares_to_buy))]
    IN  [afterWho EXCEPT ![id][from] = Some(buy_from_metadata(from_metadata, shares_to_buy))]

\* buy_commits, were the storage writes placed before the currency transfer
buy_commits_before_transfer(res) == res \in {"Ok", "Other"}

\* the results with which buy_shares reaches its storage writes and its event
buy_commits(res) == res = "Ok"

\* buy_pays, were the currency moved before the offers are checked
buy_pays_before_offers_check(res) == res \in {"Ok", "IncorrectSharesSelection"}

\* the results with which buy_shares has moved currency
buy_pays(res) == res = "Ok"

buy_shares(who, id, shares_to_buy, amount, from) ==
    LET checks == buy_checks(who, id, shares_to_buy, amount, from)
    IN  \E gateway_ok \in BOOLEAN :
            \* the transfer is attempted only once every check has passed
            /\ checks # "Ok" => gateway_ok
            /\ LET res == buy_result(checks, gateway_ok)
               IN  /\ pre' = Snapshot
                   /\ last' = Call("buy", who, "", id, shares_to_buy, amount, from, res)
                   /\ balance' = IF buy_pays(res)
                                 THEN currency_transfer(who, from, amount)
                                 ELSE balance
                   /\ IF buy_commits(res)
                      THEN /\ metadataOf' = buy_writes(who, id, shares_to_buy, from)
                           /\ events' = Append(events,
                                           << "SharesTransferred", from, who, shares_to_buy >>)
                      ELSE UNCHANGED << metadataOf, events >>
                   /\ UNCHANGED mainOwner

-----------------------------------------------------------------------------
(* claim_onwership *)

\* has_enough_shares, were half of the shares enough
has_enough_shares_half(origin_metadata) == origin_metadata.shares >= 50

\* "Make sure that origin has 50% of the shares"
has_enough_shares(origin_metadata) == origin_metadata.shares > 50

\* claim_result, were the caller's shares checked before its being main owner
claim_result_shares_first(who, id) ==
    IF ~IsSome(get_main_owner_by_asset(id)) THEN "AssetDoesNotExist"
    ELSE IF ~IsSome(metadataOf[id][who]) THEN "NotEnoughShares"
    ELSE IF ~has_enough_shares(Unwrap(metadataOf[id][who])) THEN "NotEnoughShares"
    ELSE IF ~(Unwrap(get_main_owner_by_asset(id)) # who) THEN "AlreadyMainOnwer"
    ELSE "Ok"

\* the checks of claim_onwership in program order
claim_result(who, id) ==
    IF ~IsSome(get_main_owner_by_asset(id)) THEN "AssetDoesNotExist"
    ELSE IF ~(Unwrap(get_main_owner_by_asset(id)) # who) THEN "AlreadyMainOnwer"
    ELSE IF ~IsSome(metadataOf[id][who]) THEN "NotEnoughShares"
    ELSE IF ~has_enough_shares(Unwrap(metadataOf[id][who])) THEN "NotEnoughShares"
    ELSE "Ok"

\* claim_onwership, were its event to name the main owner it replaces
claim_onwership_event_names_replaced(who, id) ==
    LET res == claim_result(who, id)
    IN  /\ pre' = Snapshot
        /\ last' = Call("claim", who, "", id, 0, 0, who, res)
        /\ IF res = "Ok"
           THEN /\ mainOwner' = set_main_owner(who, id)
                /\ events' = Append(events, << "MainOwnerSet", Unwrap(mainOwner[id]), id >>)
                /\ UNCHANGED << metadataOf, balance >>
           ELSE UNCHANGED << metadataOf, mainOwner, balance, events >>

claim_onwership(who, id) ==
    LET res == claim_result(who, id)
    IN  /\ pre' = Snapshot
        /\ last' = Call("claim", who, "", id, 0, 0, who, res)
        /\ IF res = "Ok"
           THEN /\ mainOwner' = set_main_owner(who, id)
                /\ events' = Append(events, << "MainOwnerSet", who, id >>)
                /\ UNCHANGED << metadataOf, balance >>
           ELSE UNCHANGED << metadataOf, mainOwner, balance, events >>

-----------------------------------------------------------------------------
(* Specification *)

\* The search is bounded by the number of deposited events. A rejected call
\* writes nothing, so the calls that can follow it, and the states they lead to,
\* are exactly those of the state it was dispatched in: the search goes on from
\* the initial state and from the states successful calls produce.
Explored == Len(events) < MaxEvents /\ last.res = "Ok"

Create == Explored /\ \E who \in Accounts, data \in Payloads, share_price \in SharePrices :
              create_proportional_asset(who, data, share_price)

Offer == Explored /\ \E who \in Accounts, id \in Identifiers, n \in ShareCounts, share_price \in SharePrices :
              offer_shares(who, id, n, share_price)

Transfer == Explored /\ \E who \in Accounts, id \in Identifiers, amount \in ShareCounts, to \in Accounts :
              transfer_shares_to_account(who, id, amount, to)

Buy == Explored /\ \E who \in Accounts, id \in Identifiers, n \in ShareCounts, amount \in AmountsSent,
          from \in Accounts :
              buy_shares(who, id, n, amount, from)

Claim == Explored /\ \E who \in Accounts, id \in Identifiers : claim_onwership(who, id)

Next == Create \/ Offer \/ Transfer \/ Buy \/ Claim

Spec == Init /\ [][Next]_vars

-----------------------------------------------------------------------------
(* Long runs on one asset: the same calls on narrower inputs, so that the
   search reaches a change of main owner followed by further trading *)

DeepExplored == Len(events) < MaxDeepEvents /\ last.res = "Ok"

DeepCreate == DeepExplored /\ \E who \in {1}, data \in {"house"}, share_price \in {10} :
              create_proportional_asset(who, data, share_price)

DeepOffer == DeepExplored /\ \E who \in Accounts, id \in {hash("house")}, n \in {2}, share_price \in {20} :
              offer_shares(who, id, n, share_price)

DeepTransfer == DeepExplored /\ \E who \in Accounts, id \in {hash("house")}, amount \in {2, 51}, to \in Accounts :
              transfer_shares_to_account(who, id, amount, to)

DeepBuy == DeepExplored /\ \E who \in Accounts, id \in {hash("house")}, n \in {2}, amount \in {40},
              from \in Accounts :
              buy_shares(who, id, n, amount, from)

DeepClaim == DeepExplored /\ \E who \in Accounts, id \in {hash("house")} : claim_onwership(who, id)

DeepNext == DeepCreate \/ DeepOffer \/ DeepTransfer \/ DeepBuy \/ DeepClaim

SpecDeep == Init /\ [][DeepNext]_vars

-----------------------------------------------------------------------------
(* The documented scenario: the same calls on the values of the scenario, with
   account 1 as owner, account 3 as accountB and account 2 (which holds 50
   units) as accountC *)

ScenarioExplored == Len(events) < MaxScenarioEvents /\ last.res = "Ok"

ScenarioCreate == ScenarioExplored /\ \E who \in {1}, data \in {"house"}, share_price \in {10} :
              create_proportional_asset(who, data, share_price)

ScenarioOffer == ScenarioExplored /\ \E who \in Accounts, id \in {hash("house")}, n \in {5}, share_price \in {20} :
              offer_shares(who, id, n, share_price)

ScenarioTransfer == ScenarioExplored /\ \E who \in Accounts, id \in {hash("house")}, amount \in {50}, to \in Accounts :
              transfer_shares_to_account(who, id, amount, to)

ScenarioBuy == ScenarioExplored /\ \E who \in Accounts, id \in {hash("house")}, n \in {2}, amount \in {40},
              from \in Accounts :
              buy_shares(who, id, n, amount, from)

ScenarioClaim == ScenarioExplored /\ \E who \in Accounts, id \in {hash("house")} : claim_onwership(who, id)

ScenarioNext == ScenarioCreate \/ ScenarioOffer \/ ScenarioTransfer \/ ScenarioBuy \/ ScenarioClaim

SpecScenario == Init /\ [][ScenarioNext]_vars

-----------------------------------------------------------------------------
(* Losing and regaining the main ownership: one asset created and offered by
   account 1, majorities of 51 shares passed around, and purchases of the
   shares on offer *)

ReclaimExplored == Len(events) < MaxReclaimEvents /\ last.res = "Ok"

ReclaimCreate == ReclaimExplored /\ \E who \in {1}, data \in {"house"}, share_price \in {10} :
              create_proportional_asset(who, data, share_price)

ReclaimOffer == ReclaimExplored /\ \E who \in {1}, id \in {hash("house")}, n \in {2}, share_price \in {20} :
              offer_shares(who, id, n, share_price)

ReclaimTransfer == ReclaimExplored /\ \E who \in {1, 2}, id \in {hash("house")}, amount \in {51}, to \in {1, 2} :
              transfer_shares_to_account(who, id, amount, to)

ReclaimBuy == ReclaimExplored /\ \E who \in Accounts, id \in {hash("house")}, n \in {2}, amount \in {40},
              from \in Accounts :
              buy_shares(who, id, n, amount, from)

ReclaimClaim == ReclaimExplored /\ \E who \in Accounts, id \in {hash("house")} : claim_onwership(who, id)

ReclaimNext == ReclaimCreate \/ ReclaimOffer \/ ReclaimTransfer \/ ReclaimBuy \/ ReclaimClaim

SpecReclaim == Init /\ [][ReclaimNext]_vars

-----------------------------------------------------------------------------
(* Prices near the u64 maximum: the Balance type is wider than u64, so an
   account can hold, and send, the u64 maximum and more *)

\* a share price whose double exceeds the u64 maximum
HalfU64 == 2^(U64Bits - 1)

\* genesis balances of a runtime whose accounts 1 and 2 hold more than the u64 maximum
funded_balances == [a \in Accounts |-> IF a \in {1, 2} THEN 2 * (MaxU64 + 1) ELSE 0]

InitFunded ==
    /\ metadataOf = [id \in Identifiers |-> [a \in Accounts |-> None]]
    /\ mainOwner = [id \in Identifiers |-> None]
    /\ balance = funded_balances
    /\ events = << >>
    /\ last = Call("none", 0, "", "", 0, 0, 0, "Ok")
    /\ pre = [metadataOf |-> [id \in Identifiers |-> [a \in Accounts |-> None]],
              mainOwner |-> [id \in Identifiers |-> None],
              balance |-> funded_balances,
              events |-> << >>]

SaturatingExplored == Len(events) < MaxSaturatingEvents /\ last.res = "Ok"

SaturatingCreate == SaturatingExplored /\ \E who \in {1}, data \in {"house"}, share_price \in {10, HalfU64} :
              create_proportional_asset(who, data, share_price)

SaturatingOffer == SaturatingExplored /\ \E who \in Accounts, id \in {hash("house")}, n \in {2},
              share_price \in {HalfU64} :
              offer_shares(who, id, n, share_price)

SaturatingTransfer == SaturatingExplored /\ \E who \in Accounts, id \in {hash("house")}, amount \in {2},
              to \in Accounts :
              transfer_shares_to_account(who, id, amount, to)

SaturatingBuy == SaturatingExplored /\ \E who \in Accounts, id \in {hash("house")}, n \in {1, 2},
              amount \in {MaxU64 - 1, MaxU64, MaxU64 + 1}, from \in Accounts :
              buy_shares(who, id, n, amount, from)

SaturatingClaim == SaturatingExplored /\ \E who \in Accounts, id \in {hash("house")} : claim_onwership(who, id)

SaturatingNext == SaturatingCreate \/ SaturatingOffer \/ SaturatingTransfer \/ SaturatingBuy \/ SaturatingClaim

SpecSaturating == InitFunded /\ [][SaturatingNext]_vars

-----------------------------------------------------------------------------
(* Properties *)

RECURSIVE SumOver(_, _)
SumOver(f, S) ==
    IF S = {} THEN 0
    ELSE LET x == CHOOSE y \in S : TRUE IN f[x] + SumOver(f, S \ {x})

SharesOf(md) == IF IsSome(md) THEN Unwrap(md).shares ELSE 0

\* the sum of `shares` over all owner records of id
TotalShares(id) == SumOver([a \in Accounts |-> SharesOf(metadataOf[id][a])], Accounts)

\* an asset has been created once it has a main owner
Exists(id) == IsSome(mainOwner[id])

LastOk(op) == last.op = op /\ last.res = "Ok"

PreRecord(id, a) == pre.metadataOf[id][a]
Record(id, a) == metadataOf[id][a]

StoresUnchanged ==
    /\ metadataOf = pre.metadataOf
    /\ mainOwner = pre.mainOwner
    /\ balance = pre.balance
    /\ events = pre.events

\* C1: for every asset identifier that has been created, the shares of all its
\* owner records sum to exactly 100.
C1_SharesSumTo100 == \A id \in Identifiers : Exists(id) => TotalShares(id) = TOTAL_SUPPLY

\* the payment of the last buy has been made: amount moved from caller to seller
BuyPaid ==
    /\ balance[last.who] = pre.balance[last.who] - last.amount
    /\ balance[last.other] = pre.balance[last.other] + last.amount
    /\ \A a \in Accounts \ {last.who, last.other} : balance[a] = pre.balance[a]

\* the bookkeeping of the last buy has been done on both records, and notified
BuyBooked ==
    /\ IsSome(Record(last.id, last.other))
    /\ Unwrap(Record(last.id, last.other)).shares
            = Unwrap(PreRecord(last.id, last.other)).shares - last.shares
    /\ Unwrap(Record(last.id, last.other)).offers
            = Unwrap(PreRecord(last.id, last.other)).offers - last.shares
    /\ IsSome(Record(last.id, last.who))
    /\ Unwrap(Record(last.id, last.who)).shares
            = SharesOf(PreRecord(last.id, last.who)) + last.shares
    /\ events = Append(pre.events, << "SharesTransferred", last.other, last.who, last.shares >>)

\* C2: a buy is all-or-nothing: the payment and the bookkeeping are both applied
\* (and only by a successful buy), or no record, main-owner entry, balance or
\* notification changes; a failed gateway transfer changes nothing.
C2_BuyAllOrNothing ==
    last.op = "buy" =>
        IF last.res = "Ok" THEN BuyPaid /\ BuyBooked ELSE StoresUnchanged

\* a buy passed every check of the pallet and the gateway's transfer failed
C2_Witness == last.op = "buy" /\ last.res = "Other"

\* C3: after a successful buy the seller's shares and offers are each n lower,
\* the caller's shares n higher (n if it had no record), and the full amount
\* sent has moved from the caller's balance to the seller's.
C3_BuyEffect ==
    LastOk("buy") =>
        /\ Unwrap(Record(last.id, last.other)).shares
                = Unwrap(PreRecord(last.id, last.other)).shares - last.shares
        /\ Unwrap(Record(last.id, last.other)).offers
                = Unwrap(PreRecord(last.id, last.other)).offers - last.shares
        /\ Unwrap(Record(last.id, last.who)).shares
                = (IF IsSome(PreRecord(last.id, last.who))
                   THEN Unwrap(PreRecord(last.id, last.who)).shares + last.shares
                   ELSE last.shares)
        /\ balance[last.who] = pre.balance[last.who] - last.amount
        /\ balance[last.other] = pre.balance[last.other] + last.amount

\* a successful buy that sent more than seller.price * n
C3_Witness ==
    /\ LastOk("buy")
    /\ last.amount > Unwrap(PreRecord(last.id, last.other)).price * last.shares
    /\ last.shares > 0

\* C4: after a successful create the caller's record under hash(payload) is
\* {shares: 100, offers: 0, price: sharePrice} and the caller is the main owner.
C4_CreateEffect ==
    LastOk("create") =>
        /\ Record(hash(last.data), last.who) = Some(MetaData(100, 0, last.amount))
        /\ mainOwner[hash(last.data)] = Some(last.who)

\* a successful create of an asset that did not exist
C4_Witness == LastOk("create") /\ ~IsSome(pre.mainOwner[hash(last.data)])

\* C5: a claim succeeds exactly when the asset has a main owner, the caller is
\* not that main owner and the caller's record has more than 50 shares; on
\* success the caller becomes the main owner.
C5_ClaimIff ==
    last.op = "claim" =>
        /\ last.res = "Ok" <=>
                /\ IsSome(pre.mainOwner[last.id])
                /\ Unwrap(pre.mainOwner[last.id]) # last.who
                /\ IsSome(PreRecord(last.id, last.who))
                /\ Unwrap(PreRecord(last.id, last.who)).shares > 50
        /\ last.res = "Ok" => mainOwner[last.id] = Some(last.who)

\* a claim accepted with exactly 51 shares
C5_Witness ==
    /\ LastOk("claim")
    /\ Unwrap(PreRecord(last.id, last.who)).shares = 51
    /\ mainOwner[last.id] = Some(last.who)
    /\ pre.mainOwner[last.id] # Some(last.who)

C8_BuyKeepsCallerOffer ==
    (LastOk("buy") /\ IsSome(PreRecord(last.id, last.who))) =>
        Record(last.id, last.who) =
            Some(MetaData(Unwrap(PreRecord(last.id, last.who)).shares + last.shares,
                          Unwrap(PreRecord(last.id, last.who)).offers,
                          Unwrap(PreRecord(last.id, last.who)).price))

\* C9: once set, the main owner of an asset is changed by a successful claim
\* only, and becomes the claiming caller.
C9_MainOwnerChangedByClaimOnly ==
    \A id \in Identifiers :
        (IsSome(pre.mainOwner[id]) /\ mainOwner[id] # pre.mainOwner[id]) =>
            /\ LastOk("claim")
            /\ last.id = id
            /\ mainOwner[id] = Some(last.who)

\* C10: a create whose payload hashes to an identifier that already exists
\* (already has a main owner) is rejected, whoever the caller is.
C10_CreateOnce ==
    (last.op = "create" /\ IsSome(pre.mainOwner[last.id])) => last.res # "Ok"

C12_RejectedChangesNothing == last.res # "Ok" => StoresUnchanged

\* a buy rejected for the caller's balance, after every check on the shares passed
C12_Witness == last.op = "buy" /\ last.res = "InsufficientBalance"

\* C13: every owner record has offers <= shares.
C13_OffersWithinShares ==
    \A id \in Identifiers, a \in Accounts :
        IsSome(Record(id, a)) => Unwrap(Record(id, a)).offers <= Unwrap(Record(id, a)).shares

\* C14: every owner record has shares in 0..100.
C14_SharesWithinSupply ==
    \A id \in Identifiers, a \in Accounts :
        IsSome(Record(id, a)) => Unwrap(Record(id, a)).shares \in 0..100

\* C15: a buy is rejected with IncorrectSeller whenever the caller is the seller
\* or the seller is not the main owner of the asset (or there is none), so a
\* successful buy has the main owner as seller and another account as caller.
C15_BuyFromMainOwnerOnly ==
    last.op = "buy" =>
        /\ (last.who = last.other \/ pre.mainOwner[last.id] # Some(last.other))
                => last.res = "IncorrectSeller"
        /\ last.res = "Ok"
                => (pre.mainOwner[last.id] = Some(last.other) /\ last.who # last.other)

\* a buy rejected because the seller, who holds shares of the asset, is not its
\* main owner
C15_Witness ==
    /\ last.op = "buy"
    /\ last.res = "IncorrectSeller"
    /\ last.who # last.other
    /\ IsSome(pre.mainOwner[last.id])
    /\ IsSome(PreRecord(last.id, last.other))
    /\ Unwrap(PreRecord(last.id, last.other)).shares > 0

\* the last call is a buy whose seller checks passed: the seller is the main
\* owner, is not the caller and has a record
SellerChecksPassed ==
    /\ last.op = "buy"
    /\ last.who # last.other
    /\ pre.mainOwner[last.id] = Some(last.other)
    /\ IsSome(PreRecord(last.id, last.other))

\* the result of the last buy is the one the gateway's transfer decides
PaidOrGatewayFailed == last.res \in {"Ok", "Other"}

\* seller.price * sharesToBuy, saturating at the u64 maximum
SellerPrice ==
    LET product == Unwrap(PreRecord(last.id, last.other)).price * last.shares
    IN  IF product > MaxU64 THEN MaxU64 ELSE product

\* C16 as stated: with the seller checks passed a buy reports the first failing
\* check among shares, amount against price, offers, balance, and otherwise
\* succeeds.
C16_BuyCheckOrder_AsStated ==
    SellerChecksPassed =>
        LET seller == Unwrap(PreRecord(last.id, last.other))
        IN  IF last.shares > seller.shares THEN last.res = "IncorrectAmount"
            ELSE IF last.amount < SellerPrice THEN last.res = "IncorrectAmount"
            ELSE IF last.shares > seller.offers THEN last.res = "IncorrectSharesSelection"
            ELSE IF pre.balance[last.who] < last.amount THEN last.res = "InsufficientBalance"
            ELSE PaidOrGatewayFailed

\* C16 (amended): with the seller checks passed a buy reports the first failing
\* check among shares (IncorrectAmount), amount sent not representable as u64
\* (ConversionError), amount against the saturating price (IncorrectAmount),
\* offers (IncorrectSharesSelection), balance (InsufficientBalance), and
\* otherwise succeeds unless the gateway's transfer fails; so no successful buy
\* takes more shares than the seller offers.
C16_BuyCheckOrder ==
    SellerChecksPassed =>
        LET seller == Unwrap(PreRecord(last.id, last.other))
        IN  /\ IF last.shares > seller.shares THEN last.res = "IncorrectAmount"
               ELSE IF last.amount > MaxU64 THEN last.res = "ConversionError"
               ELSE IF last.amount < SellerPrice THEN last.res = "IncorrectAmount"
               ELSE IF last.shares > seller.offers THEN last.res = "IncorrectSharesSelection"
               ELSE IF pre.balance[last.who] < last.amount THEN last.res = "InsufficientBalance"
               ELSE PaidOrGatewayFailed
            /\ last.res = "Ok" => last.shares <= seller.offers

\* a buy that fails both the offers check and the balance check, and reports
\* the offers
C16_Witness ==
    /\ SellerChecksPassed
    /\ last.shares > Unwrap(PreRecord(last.id, last.other)).offers
    /\ pre.balance[last.who] < last.amount
    /\ last.res = "IncorrectSharesSelection"

\* C17: an offer by an account that is not the main owner of the asset is
\* rejected with NotMainOwner, also when it holds shares; an offer by the main
\* owner of more than its shares is rejected with InvalidOffers; every other
\* offer succeeds.
C17_OfferResult ==
    last.op = "offer" =>
        last.res = (IF pre.mainOwner[last.id] # Some(last.who) THEN "NotMainOwner"
                    ELSE IF last.shares > Unwrap(PreRecord(last.id, last.who)).shares
                         THEN "InvalidOffers"
                    ELSE "Ok")

\* an offer by a holder of shares that is not the main owner, rejected
C17_Witness ==
    /\ last.op = "offer"
    /\ last.res = "NotMainOwner"
    /\ IsSome(PreRecord(last.id, last.who))
    /\ Unwrap(PreRecord(last.id, last.who)).shares >= last.shares

\* C18: a transfer is rejected with InvalidAccount exactly when the caller has
\* no record of the asset, with IncorrectSharesSelection exactly when it has
\* one and the amount exceeds its shares, and succeeds in every other case.
C18_TransferResult ==
    last.op = "transfer" =>
        last.res = (IF ~IsSome(PreRecord(last.id, last.who)) THEN "InvalidAccount"
                    ELSE IF last.shares > Unwrap(PreRecord(last.id, last.who)).shares
                         THEN "IncorrectSharesSelection"
                    ELSE "Ok")

\* a successful transfer of all its shares by an account that is not the main
\* owner and has offered nothing
C18_Witness ==
    /\ LastOk("transfer")
    /\ pre.mainOwner[last.id] # Some(last.who)
    /\ Unwrap(PreRecord(last.id, last.who)).offers = 0
    /\ Unwrap(PreRecord(last.id, last.who)).shares = last.shares

\* C19: a rejected claim reports the first failing check in this order: no main
\* owner (AssetDoesNotExist), caller already main owner (AlreadyMainOnwer, also
\* with 50 shares or fewer), no record or 50 shares or fewer (NotEnoughShares).
C19_ClaimRejectionOrder ==
    (last.op = "claim" /\ last.res # "Ok") =>
        last.res = (IF ~IsSome(pre.mainOwner[last.id]) THEN "AssetDoesNotExist"
                    ELSE IF pre.mainOwner[last.id] = Some(last.who) THEN "AlreadyMainOnwer"
                    ELSE "NotEnoughShares")

\* a claim by the main owner, which holds 50 shares or fewer, rejected as
\* already main owner
C19_Witness ==
    /\ last.op = "claim"
    /\ last.res = "AlreadyMainOnwer"
    /\ Unwrap(PreRecord(last.id, last.who)).shares <= 50

\* the records of one asset: those of the owner (account 1), of accountB
\* (account 3) and of accountC (account 2), and no other
Ledger(owner, accountB, accountC) ==
    [a \in Accounts |-> IF a = 1 THEN owner
                        ELSE IF a = 3 THEN accountB
                        ELSE IF a = 2 THEN accountC
                        ELSE None]

LastCall(op, who, id, shares, amount, other) ==
    /\ last.op = op
    /\ last.who = who
    /\ last.id = id
    /\ last.shares = shares
    /\ last.amount = amount
    /\ last.other = other

\* C20: from an empty ledger, create(owner, payload, 10) gives owner
\* {100, 0, 10}; then offer(owner, id, 5, 20) gives owner {100, 5, 20}; then
\* transfer(owner, id, 50, accountB) gives owner {50, 5, 20} and accountB
\* {50, 0, 0}; then buy(accountC, id, 2, 40, owner), accountC holding at least
\* 40, gives owner {48, 3, 20} and accountC {2, 0, 0} and moves 40 from
\* accountC to owner; each call succeeds (the buy, once the gateway has made
\* the transfer).
C20_Scenario ==
    LET id == hash("house")
        created == Ledger(Some(MetaData(100, 0, 10)), None, None)
        offered == Ledger(Some(MetaData(100, 5, 20)), None, None)
        transferred == Ledger(Some(MetaData(50, 5, 20)), Some(MetaData(50, 0, 0)), None)
        bought == Ledger(Some(MetaData(48, 3, 20)), Some(MetaData(50, 0, 0)),
                         Some(MetaData(2, 0, 0)))
    IN  /\ (/\ LastCall("create", 1, id, 0, 10, 1)
            /\ last.data = "house"
            /\ pre.metadataOf[id] = Ledger(None, None, None)
            /\ pre.mainOwner[id] = None)
                => (last.res = "Ok" /\ metadataOf[id] = created)
        /\ (LastCall("offer", 1, id, 5, 20, 1) /\ pre.metadataOf[id] = created)
                => (last.res = "Ok" /\ metadataOf[id] = offered)
        /\ (LastCall("transfer", 1, id, 50, 0, 3) /\ pre.metadataOf[id] = offered)
                => (last.res = "Ok" /\ metadataOf[id] = transferred)
        /\ (/\ LastCall("buy", 2, id, 2, 40, 1)
            /\ pre.metadataOf[id] = transferred
            /\ pre.mainOwner[id] = Some(1)
            /\ pre.balance[2] >= 40)
                => /\ PaidOrGatewayFailed
                   /\ last.res = "Ok" =>
                        /\ metadataOf[id] = bought
                        /\ balance[2] = pre.balance[2] - 40
                        /\ balance[1] = pre.balance[1] + 40

\* the state the four calls of the scenario end in
C20_Witness ==
    /\ LastOk("buy")
    /\ events = << << "ProportionalAssetInitialized", hash("house"), 1 >>,
                   << "SharesOffered", hash("house"), 20 >>,
                   << "SharesTransferred", 1, 3, 50 >>,
                   << "SharesTransferred", 1, 2, 2 >> >>
    /\ metadataOf[hash("house")] =
            Ledger(Some(MetaData(48, 3, 20)), Some(MetaData(50, 0, 0)), Some(MetaData(2, 0, 0)))
    /\ balance[1] = 90
    /\ balance[2] = 10

\* C21: the main owner of an asset holds half of it or more: the record of the
\* current main owner has shares >= 50.
C21_MainOwnerHoldsHalf ==
    \A id \in Identifiers :
        IsSome(mainOwner[id]) =>
            /\ IsSome(Record(id, Unwrap(mainOwner[id])))
            /\ Unwrap(Record(id, Unwrap(mainOwner[id]))).shares >= 50

\* C22: after a successful offer the caller's price is sharePrice and its offers
\* are the previous offers plus sharesToOffer.
C22_OfferIncrements ==
    LastOk("offer") =>
        /\ Unwrap(Record(last.id, last.who)).price = last.amount
        /\ Unwrap(Record(last.id, last.who)).offers
                = Unwrap(PreRecord(last.id, last.who)).offers + last.shares

\* the sum of `shares` over all owner records of id when the last call began
PreTotalShares(id) == SumOver([a \in Accounts |-> SharesOf(pre.metadataOf[id][a])], Accounts)

\* C23: a successful transfer of a positive amount to the caller itself leaves
\* the caller's shares, and the sum of the shares of the asset, as they were.
C23_SelfTransferConserves ==
    (LastOk("transfer") /\ last.other = last.who /\ last.shares > 0) =>
        /\ Unwrap(Record(last.id, last.who)).shares = Unwrap(PreRecord(last.id, last.who)).shares
        /\ TotalShares(last.id) = PreTotalShares(last.id)

\* C24: whenever an asset has a main owner, that account has an owner record of
\* the asset; so no offer and no buy is rejected with InvalidAccount.
C24_MainOwnerHasRecord ==
    /\ \A id \in Identifiers :
            IsSome(mainOwner[id]) => IsSome(Record(id, Unwrap(mainOwner[id])))
    /\ last.op \in {"offer", "buy"} => last.res # "InvalidAccount"

\* the main owner has given all its shares away and its record is still there
C24_Witness ==
    /\ LastOk("transfer")
    /\ pre.mainOwner[last.id] = Some(last.who)
    /\ mainOwner[last.id] = Some(last.who)
    /\ Record(last.id, last.who) # None
    /\ Unwrap(Record(last.id, last.who)).shares = 0

\* the event e records that the main owner of id was set
SetsMainOwner(e, id) ==
    \/ e[1] = "ProportionalAssetInitialized" /\ e[2] = id
    \/ e[1] = "MainOwnerSet" /\ e[3] = id

\* the account the event e made main owner
NewMainOwner(e) == IF e[1] = "ProportionalAssetInitialized" THEN e[3] ELSE e[2]

\* in the history log, another account has claimed id while a was its main
\* owner, and a has not claimed id since
Ousted(log, a, id) ==
    \E i \in 1..Len(log) :
        /\ log[i][1] = "MainOwnerSet"
        /\ log[i][3] = id
        /\ log[i][2] # a
        /\ \E j \in 1..(i - 1) :
                /\ SetsMainOwner(log[j], id)
                /\ NewMainOwner(log[j]) = a
                /\ \A k \in (j + 1)..(i - 1) : ~SetsMainOwner(log[k], id)
        /\ \A k \in (i + 1)..Len(log) : log[k] # << "MainOwnerSet", a, id >>

C25_Repurchase ==
    /\ LastOk("buy")
    /\ \E i \in 1..Len(events), j \in 1..Len(events) :
            /\ i < j
            /\ events[i][1] = "MainOwnerSet"
            /\ events[i][2] # last.other
            /\ events[j] = << "MainOwnerSet", last.other, last.id >>
            /\ \A k \in 1..Len(events) : events[k][1] = "SharesOffered" => k < i

\* C26: every successful buy has sent at least the exact product
\* seller.price * sharesToBuy, also when that product exceeds the u64 maximum.
C26_BuyPaysExactProduct ==
    LastOk("buy") =>
        last.amount >= Unwrap(PreRecord(last.id, last.other)).price * last.shares

\* the notification of the last call, were it successful
Notification ==
    CASE last.op = "create" -> << "ProportionalAssetInitialized", last.id, last.who >>
      [] last.op = "offer" -> << "SharesOffered", last.id, last.amount >>
      [] last.op = "transfer" -> << "SharesTransferred", last.who, last.other, last.shares >>
      [] last.op = "buy" -> << "SharesTransferred", last.other, last.who, last.shares >>
      [] last.op = "claim" -> << "MainOwnerSet", last.who, last.id >>

\* C27: a successful call appends exactly one notification to the log, of the
\* kind and with the fields of the call (create: initialized(id, caller);
\* offer: offered(id, sharePrice); transfer: transferred(caller, recipient,
\* amount); buy: transferred(seller, caller, sharesToBuy); claim:
\* main-owner-set(caller, id)), after those already there; a rejected call
\* appends none.
C27_OneNotificationPerSuccess ==
    last.op # "none" =>
        events = (IF last.res = "Ok" THEN Append(pre.events, Notification) ELSE pre.events)

\* a successful buy notified after the notifications of two earlier calls
C27_Witness ==
    /\ LastOk("buy")
    /\ Len(pre.events) >= 2
    /\ Len(events) = Len(pre.events) + 1
    /\ events[Len(events)] = << "SharesTransferred", last.other, last.who, last.shares >>

\* the sum of the balances of all accounts
TotalBalance(b) == SumOver(b, Accounts)

\* C28: only a successful buy changes balances: every other call, and every
\* rejected buy, leaves every balance as it was; a successful buy moves the
\* amount from the caller to the seller and changes no other balance; so the
\* sum of all balances is the same in every reachable state.
C28_BalancesMovedByBuyOnly ==
    /\ ~LastOk("buy") => balance = pre.balance
    /\ LastOk("buy") => BuyPaid
    /\ TotalBalance(balance) = TotalBalance(pre.balance)
    /\ TotalBalance(balance) = TotalBalance(get_initial_balances)

\* a successful buy that moved a positive amount
C28_Witness ==
    /\ LastOk("buy")
    /\ last.amount > 0
    /\ balance[last.who] = pre.balance[last.who] - last.amount
    /\ balance[last.other] = pre.balance[last.other] + last.amount

====
